---------------------------- MODULE Spec2Model ----------------------------
(***************************************************************************)
(* The integer gadget of circuits/types/integers/src/lib.rs: an integer is *)
(* a vector of boolean wires, least significant first.  The model covers   *)
(* injection (new), ejection (eject_value, eject_mode), the dual           *)
(* reinterpretation (cast_as_dual), the textual format (parse, Display,    *)
(* Debug) and the field embedding (From<&Integer> for LinearCombination).  *)
(*                                                                         *)
(* Native values are mathematical integers inside the range of their type; *)
(* the native operations the code uses (&, ^, wrapping_shl, wrapping_shr,  *)
(* to_le) are computed on the two's-complement bit pattern.  The widths    *)
(* modelled are 8 and 16: TLC's integers are 32 bits wide, so the patterns *)
(* of the 32, 64 and 128 bit types cannot be computed in it.               *)
(* Strings are sequences of one-character strings.                         *)
(***************************************************************************)
EXTENDS Integers, Sequences, FiniteSets, TLC

VARIABLES circuit, x, out

vars == <<circuit, x, out>>

-----------------------------------------------------------------------------
(* Bounds of the model. *)

\* New draws the values within NearBound of MIN, of 0 and of MAX of the type.
NearBound == 2

\* New and parse start while the integer fits in a circuit of MaxVars
\* variables, and a text displayed is parsed back while the circuit holds no
\* more than MaxVars; Circuit::reset() empties the circuit.
MaxVars == 16

-----------------------------------------------------------------------------
(* Mode and the width/signedness descriptor (IntegerType). *)

Modes == {"Constant", "Public", "Private"}

IsConstantMode(mode) == mode = "Constant"

Types == {"i8", "u8", "i16", "u16"}

BITS(ty) == IF ty \in {"i8", "u8"} THEN 8 ELSE 16

IsSigned(ty) == ty \in {"i8", "i16"}

Dual(ty) ==
    CASE ty = "i8" -> "u8"
      [] ty = "u8" -> "i8"
      [] ty = "i16" -> "u16"
      [] ty = "u16" -> "i16"

Pow2(n) == 2 ^ n

MIN(ty) == IF IsSigned(ty) THEN 0 - Pow2(BITS(ty) - 1) ELSE 0

MAX(ty) == IF IsSigned(ty) THEN Pow2(BITS(ty) - 1) - 1 ELSE Pow2(BITS(ty)) - 1

Zero(ty) == 0

One(ty) == 1

\* The two's-complement bit pattern of a native value, as a natural number.
Pattern(ty, v) == v % Pow2(BITS(ty))

\* The native value of the type that has the bit pattern u.
FromPattern(ty, u) ==
    IF IsSigned(ty) /\ u >= Pow2(BITS(ty) - 1) THEN u - Pow2(BITS(ty)) ELSE u

\* The bitwise and of two bit patterns of n bits, from the lowest bit up;
\* above the highest set bit of either one it is zero.
RECURSIVE PatAnd(_, _, _)
PatAnd(n, a, b) ==
    IF n = 0 \/ a = 0 \/ b = 0 THEN 0
    ELSE (IF a % 2 = 1 /\ b % 2 = 1 THEN 1 ELSE 0)
         + 2 * PatAnd(n - 1, a \div 2, b \div 2)

\* The bitwise exclusive or of two bit patterns of n bits, from the lowest
\* bit up; above the highest set bit of one it is the other.
RECURSIVE PatXor(_, _, _)
PatXor(n, a, b) ==
    IF n = 0 THEN 0
    ELSE IF a = 0 THEN b
    ELSE IF b = 0 THEN a
    ELSE (IF a % 2 # b % 2 THEN 1 ELSE 0)
         + 2 * PatXor(n - 1, a \div 2, b \div 2)

\* a & b
BitAnd(ty, a, b) ==
    FromPattern(ty, PatAnd(BITS(ty), Pattern(ty, a), Pattern(ty, b)))

\* a ^ b
BitXor(ty, a, b) ==
    FromPattern(ty, PatXor(BITS(ty), Pattern(ty, a), Pattern(ty, b)))

\* value.wrapping_shr(n): the shift amount is taken modulo the width; the
\* shift is arithmetic (sign-extending) for a signed type, logical otherwise.
WrappingShr(ty, v, n) ==
    IF IsSigned(ty)
    THEN LET u == Pattern(ty, v) \div Pow2(n % BITS(ty))
             fill == IF v < 0
                     THEN Pow2(BITS(ty)) - Pow2(BITS(ty) - (n % BITS(ty)))
                     ELSE 0
         IN  FromPattern(ty, u + fill)
    ELSE v \div Pow2(n % BITS(ty))

\* value.wrapping_shl(n): the bits shifted past the width are dropped.
WrappingShl(ty, v, n) ==
    FromPattern(ty, (Pattern(ty, v) * Pow2(n % BITS(ty))) % Pow2(BITS(ty)))

\* value.swap_bytes()
RECURSIVE PatSwapBytes(_, _)
PatSwapBytes(nbytes, u) ==
    IF nbytes = 0 THEN 0
    ELSE (u % 256) * Pow2(8 * (nbytes - 1)) + PatSwapBytes(nbytes - 1, u \div 256)

SwapBytes(ty, v) == FromPattern(ty, PatSwapBytes(BITS(ty) \div 8, Pattern(ty, v)))

\* The targets the library is built for are little-endian.
LittleEndianTarget == TRUE

\* Mutant of ToLe: to_be() in the place of to_le().
ToLeSwapped(ty, v) == IF LittleEndianTarget THEN SwapBytes(ty, v) ELSE v

\* value.to_le(): the identity on a little-endian target, a byte swap on a
\* big-endian one.
ToLe(ty, v) == IF LittleEndianTarget THEN v ELSE SwapBytes(ty, v)

-----------------------------------------------------------------------------
(* The constraint system and the boolean wire. *)

EmptyCircuit ==
    [constants |-> 0, public |-> 0, private |-> 0, constraints |-> 0, violated |-> 0]

\* Circuit::is_satisfied(): no constraint is violated by the assigned values.
IsSatisfied(c) == c.violated = 0

NumVariables(c, mode) ==
    CASE mode = "Constant" -> c.constants
      [] mode = "Public" -> c.public
      [] mode = "Private" -> c.private

\* The circuit with one more variable of the mode.
NewVariable(c, mode) ==
    CASE mode = "Constant" -> [c EXCEPT !.constants = @ + 1]
      [] mode = "Public" -> [c EXCEPT !.public = @ + 1]
      [] mode = "Private" -> [c EXCEPT !.private = @ + 1]

\* Boolean::new(mode, value): the wire, a variable of the mode in the circuit.
BooleanNew(c, mode, value) ==
    [mode |-> mode, index |-> NumVariables(c, mode), value |-> value]

\* Environment::eject_mode over a slice of wires: Constant when every wire is
\* constant, Private when one is private, Public otherwise.
RECURSIVE EnvEjectMode(_)
EnvEjectMode(bits) ==
    IF bits = <<>> THEN "Constant"
    ELSE LET rest == EnvEjectMode(Tail(bits))
             m == Head(bits).mode
         IN  IF m = "Private" \/ rest = "Private" THEN "Private"
             ELSE IF m = "Public" \/ rest = "Public" THEN "Public"
             ELSE "Constant"

-----------------------------------------------------------------------------
(* Integer<E, I>. *)

NoInteger == [ty |-> "none", bits_le |-> <<>>]

\* Integer::from_bits_le(&bits_le): the integer that owns a copy of the wires.
\* new hands it I::BITS wires, the one length it takes.
FromBitsLe(ty, bits_le) == [ty |-> ty, bits_le |-> bits_le]

\* The loop of Integer::new from the loop state st: the circuit, the shifted
\* value, the wires pushed so far and the number of iterations done.
RECURSIVE NewLoop(_, _, _)
NewLoop(ty, mode, st) ==
    IF st.i = BITS(ty) THEN st
    ELSE NewLoop(ty, mode,
                 [circuit |-> NewVariable(st.circuit, mode),
                  value |-> WrappingShr(ty, st.value, 1),
                  bits_le |-> Append(st.bits_le,
                                     BooleanNew(st.circuit, mode,
                                                BitAnd(ty, st.value, One(ty)) = One(ty))),
                  i |-> st.i + 1])

\* Mutant of New: the wires are allocated private whatever the mode.
NewAllPrivate(c, ty, mode, value) ==
    LET r == NewLoop(ty, "Private",
                     [circuit |-> c, value |-> ToLe(ty, value), bits_le |-> <<>>, i |-> 0])
    IN  [circuit |-> r.circuit, integer |-> FromBitsLe(ty, r.bits_le)]

\* Integer::new(mode, value) in circuit c: the circuit after it and the integer.
New(c, ty, mode, value) ==
    LET r == NewLoop(ty, mode,
                     [circuit |-> c, value |-> ToLe(ty, value), bits_le |-> <<>>, i |-> 0])
    IN  [circuit |-> r.circuit, integer |-> FromBitsLe(ty, r.bits_le)]

\* Mutant of CastAsDual: the wires are kept under the type they had.
CastAsDualSameType(self) == [ty |-> self.ty, bits_le |-> self.bits_le]

\* Integer::cast_as_dual
CastAsDual(self) == [ty |-> Dual(self.ty), bits_le |-> self.bits_le]

\* #[derive(Clone)]
Clone(self) == [ty |-> self.ty, bits_le |-> self.bits_le]

\* Integer::eject_mode
EjectMode(self) == EnvEjectMode(self.bits_le)

\* One step of the fold of eject_value.
EjectStep(ty, value, bit) ==
    IF bit.value
    THEN BitXor(ty, WrappingShl(ty, value, 1), One(ty))
    ELSE BitXor(ty, WrappingShl(ty, value, 1), Zero(ty))

\* The fold of eject_value over bits_le.iter().rev(): st holds the accumulated
\* value and the index of the next wire, from the last one down to the first.
RECURSIVE EjectFold(_, _, _)
EjectFold(ty, bits_le, st) ==
    IF st.n = 0 THEN st.value
    ELSE EjectFold(ty, bits_le,
                   [value |-> EjectStep(ty, st.value, bits_le[st.n]), n |-> st.n - 1])

\* Mutant of EjectValue: the fold runs over bits_le.iter(), the .rev() missing.
EjectValueNoRev(self) ==
    EjectFold(self.ty,
              [k \in 1..Len(self.bits_le) |-> self.bits_le[Len(self.bits_le) + 1 - k]],
              [value |-> Zero(self.ty), n |-> Len(self.bits_le)])

\* Integer::eject_value
EjectValue(self) ==
    EjectFold(self.ty, self.bits_le, [value |-> Zero(self.ty), n |-> Len(self.bits_le)])

\* Integer::is_constant
IsConstant(self) == IsConstantMode(EjectMode(self))

-----------------------------------------------------------------------------
(* The textual format.  A string is a sequence of one-character strings.   *)

DigitChars == <<"0", "1", "2", "3", "4", "5", "6", "7", "8", "9">>

IsDigit(ch) == \E d \in 1..10 : DigitChars[d] = ch

\* The digit a digit character writes.
DigitOf(ch) == (CHOOSE d \in 1..10 : DigitChars[d] = ch) - 1

\* The decimal digits of a natural number, as the formatter of the native
\* integers writes them: most significant first, no leading zero.
RECURSIVE NatToDecimal(_)
NatToDecimal(n) ==
    IF n < 10 THEN <<DigitChars[n + 1]>>
    ELSE Append(NatToDecimal(n \div 10), DigitChars[(n % 10) + 1])

\* format!("{}", v) and format!("{:?}", v) of a native integer.
ToDecimal(v) == IF v < 0 THEN <<"-">> \o NatToDecimal(0 - v) ELSE NatToDecimal(v)

\* I::type_name()
TypeName(ty) ==
    CASE ty = "i8" -> <<"i", "8">>
      [] ty = "u8" -> <<"u", "8">>
      [] ty = "i16" -> <<"i", "1", "6">>
      [] ty = "u16" -> <<"u", "1", "6">>

\* Display for Mode
ModeDisplay(mode) ==
    CASE mode = "Constant" -> <<"c", "o", "n", "s", "t", "a", "n", "t">>
      [] mode = "Public" -> <<"p", "u", "b", "l", "i", "c">>
      [] mode = "Private" -> <<"p", "r", "i", "v", "a", "t", "e">>

\* Debug for Integer: write!(f, "{:?}", self.eject_value())
Debug(self) == ToDecimal(EjectValue(self))

\* Mutant of Display: the mode is not written.
DisplayNoMode(self) == ToDecimal(EjectValue(self)) \o TypeName(self.ty)

\* Mutant of Display: the '.' between the type and the mode is not written.
DisplayNoDot(self) ==
    ToDecimal(EjectValue(self)) \o TypeName(self.ty) \o ModeDisplay(EjectMode(self))

\* Display for Integer:
\* write!(f, "{}{}.{}", self.eject_value(), Self::type_name(), self.eject_mode())
Display(self) ==
    ToDecimal(EjectValue(self)) \o TypeName(self.ty) \o <<".">>
        \o ModeDisplay(EjectMode(self))

\* The string without its first n characters.
DropChars(string, n) == SubSeq(string, n + 1, Len(string))

IsPrefix(t, string) == Len(t) <= Len(string) /\ SubSeq(string, 1, Len(t)) = t

\* nom's tag(t): the rest of the string after t, or an error.
Tag(t, string) ==
    IF IsPrefix(t, string)
    THEN [ok |-> TRUE, rest |-> DropChars(string, Len(t))]
    ELSE [ok |-> FALSE, rest |-> string]

\* many0(char('_')) from position i of the string: the position after the
\* run of underscores.
RECURSIVE Many0Underscore(_, _)
Many0Underscore(string, i) ==
    IF i <= Len(string) /\ string[i] = "_" THEN Many0Underscore(string, i + 1) ELSE i

\* many1(terminated(one_of("0123456789"), many0(char('_')))) from position i,
\* n items matched so far: the position after the last item, or 0 when there
\* is no item.
RECURSIVE Many1Digits(_, _, _)
Many1Digits(string, i, n) ==
    IF i <= Len(string) /\ IsDigit(string[i])
    THEN Many1Digits(string, Many0Underscore(string, i + 1), n + 1)
    ELSE IF n = 0 THEN 0 ELSE i

\* recognize(many1(...)): the text the items cover and the rest of the string.
RecognizeDigits(string) ==
    LET end == Many1Digits(string, 1, 0)
    IN  IF end = 0 THEN [ok |-> FALSE, text |-> <<>>, rest |-> string]
        ELSE [ok |-> TRUE, text |-> SubSeq(string, 1, end - 1),
              rest |-> DropChars(string, end - 1)]

\* Mutant of RemoveUnderscores: replacen('_', "", 1), the first one only.
RECURSIVE RemoveFirstUnderscore(_)
RemoveFirstUnderscore(string) ==
    IF string = <<>> THEN <<>>
    ELSE IF Head(string) = "_" THEN Tail(string)
    ELSE <<Head(string)>> \o RemoveFirstUnderscore(Tail(string))

\* primitive.replace('_', "")
RECURSIVE RemoveUnderscores(_)
RemoveUnderscores(string) ==
    IF string = <<>> THEN <<>>
    ELSE IF Head(string) = "_" THEN RemoveUnderscores(Tail(string))
    ELSE <<Head(string)>> \o RemoveUnderscores(Tail(string))

\* Mutant of AccumulateDigits: wrapping multiplication and addition.
RECURSIVE AccumulateDigitsWrapping(_, _, _, _)
AccumulateDigitsWrapping(ty, digits, positive, st) ==
    IF ~st.ok \/ st.i > Len(digits) THEN st
    ELSE IF ~IsDigit(digits[st.i]) THEN [st EXCEPT !.ok = FALSE]
    ELSE LET d == DigitOf(digits[st.i])
             next == IF positive THEN st.value * 10 + d ELSE st.value * 10 - d
         IN  AccumulateDigitsWrapping(ty, digits, positive,
                 [ok |-> TRUE, value |-> FromPattern(ty, Pattern(ty, next)),
                  i |-> st.i + 1])

\* The digit loop of the native parser: the digits are accumulated into the
\* type, by checked multiplication and checked addition (subtraction for a
\* negative number); an overflow or a character that is no digit is an error.
RECURSIVE AccumulateDigits(_, _, _, _)
AccumulateDigits(ty, digits, positive, st) ==
    IF ~st.ok \/ st.i > Len(digits) THEN st
    ELSE IF ~IsDigit(digits[st.i]) THEN [st EXCEPT !.ok = FALSE]
    ELSE LET d == DigitOf(digits[st.i])
             next == IF positive THEN st.value * 10 + d ELSE st.value * 10 - d
         IN  IF next > MAX(ty) \/ next < MIN(ty) THEN [st EXCEPT !.ok = FALSE]
             ELSE AccumulateDigits(ty, digits, positive,
                                   [ok |-> TRUE, value |-> next, i |-> st.i + 1])

\* str::parse::<I>(): the native integer a string writes, or an error.  A
\* leading '+' is dropped; a leading '-' is a sign for a signed type only (for
\* an unsigned type it is a character that is no digit).
IntFromStr(ty, string) ==
    IF string = <<>> THEN [ok |-> FALSE, value |-> 0]
    ELSE IF Len(string) = 1 /\ Head(string) \in {"+", "-"} THEN [ok |-> FALSE, value |-> 0]
    ELSE LET positive == ~(Head(string) = "-" /\ IsSigned(ty))
             digits == IF Head(string) = "+" \/ (Head(string) = "-" /\ IsSigned(ty))
                       THEN Tail(string) ELSE string
             r == AccumulateDigits(ty, digits, positive,
                                   [ok |-> TRUE, value |-> 0, i |-> 1])
         IN  [ok |-> r.ok, value |-> r.value]

\* Mode::parse: one of the three keywords.
ModeParse(string) ==
    IF IsPrefix(ModeDisplay("Constant"), string)
    THEN [ok |-> TRUE, mode |-> "Constant", rest |-> DropChars(string, 8)]
    ELSE IF IsPrefix(ModeDisplay("Public"), string)
    THEN [ok |-> TRUE, mode |-> "Public", rest |-> DropChars(string, 6)]
    ELSE IF IsPrefix(ModeDisplay("Private"), string)
    THEN [ok |-> TRUE, mode |-> "Private", rest |-> DropChars(string, 7)]
    ELSE [ok |-> FALSE, mode |-> "Constant", rest |-> string]

\* opt(pair(tag("."), Mode::parse)): the mode and the rest; when the pair does
\* not match nothing is consumed and there is no mode.
OptMode(string) ==
    LET dot == Tag(<<".">>, string)
        m == ModeParse(dot.rest)
    IN  IF dot.ok /\ m.ok THEN [some |-> TRUE, mode |-> m.mode, rest |-> m.rest]
        ELSE [some |-> FALSE, mode |-> "Constant", rest |-> string]

ParseError(c, string) ==
    [ok |-> FALSE, rest |-> string, circuit |-> c, integer |-> NoInteger]

\* Integer::parse(string) in circuit c, for the type ty.
Parse(c, ty, string) ==
    LET neg == Tag(<<"-">>, string)
        negation == IF neg.ok THEN <<"-">> ELSE <<>>
        digits == RecognizeDigits(neg.rest)
        primitive == negation \o digits.text
        suffix == Tag(TypeName(ty), digits.rest)
        value == IntFromStr(ty, RemoveUnderscores(primitive))
        mode == OptMode(suffix.rest)
    IN  IF ~digits.ok THEN ParseError(c, string)
        ELSE IF ~suffix.ok THEN ParseError(c, string)
        ELSE IF ~value.ok THEN ParseError(c, string)
        ELSE LET r == IF mode.some THEN New(c, ty, mode.mode, value.value)
                      ELSE New(c, ty, "Constant", value.value)
             IN  [ok |-> TRUE, rest |-> mode.rest, circuit |-> r.circuit,
                  integer |-> r.integer]

-----------------------------------------------------------------------------
(* The field embedding.  A linear combination is its terms (a wire and its *)
(* coefficient each) and the value it evaluates to.  The values of the     *)
(* model stay below 2^16, far below the field's modulus, so the field's    *)
(* addition and doubling are the integers'.                                *)

\* E::zero()
LCZero == [terms |-> <<>>, value |-> 0]

\* LinearCombination::from(bit)
LCFromBit(bit) ==
    [terms |-> <<[mode |-> bit.mode, index |-> bit.index, coefficient |-> 1]>>,
     value |-> IF bit.value THEN 1 ELSE 0]

\* lc * coefficient
LCMul(lc, coefficient) ==
    [terms |-> [k \in 1..Len(lc.terms) |->
                   [lc.terms[k] EXCEPT !.coefficient = @ * coefficient]],
     value |-> lc.value * coefficient]

\* accumulator += lc
LCAdd(accumulator, lc) ==
    [terms |-> accumulator.terms \o lc.terms, value |-> accumulator.value + lc.value]

\* Mutant of Double: the coefficient is not doubled.
NoDouble(coefficient) == coefficient

\* coefficient.double()
Double(coefficient) == coefficient + coefficient

\* The loop of From<&Integer> for LinearCombination from the loop state st:
\* the accumulator, the coefficient and the index of the next wire.
RECURSIVE FromLoop(_, _)
FromLoop(bits_le, st) ==
    IF st.i > Len(bits_le) THEN st
    ELSE FromLoop(bits_le,
                  [accumulator |-> LCAdd(st.accumulator,
                                         LCMul(LCFromBit(bits_le[st.i]), st.coefficient)),
                   coefficient |-> Double(st.coefficient),
                   i |-> st.i + 1])

\* From<&Integer> for LinearCombination
ToLinearCombination(integer) ==
    FromLoop(integer.bits_le,
             [accumulator |-> LCZero, coefficient |-> 1, i |-> 1]).accumulator

-----------------------------------------------------------------------------
(* A checked operation, add_checked, and the test utilities that run one.  *)

\* Whether the native sum of the two ejected values leaves the type.
AddOverflows(a, b) ==
    \/ EjectValue(a) + EjectValue(b) > MAX(a.ty)
    \/ EjectValue(a) + EjectValue(b) < MIN(a.ty)

\* a.add_checked(b) in circuit c.  With two constant operands the sum is
\* computed natively and an overflow halts; otherwise the wrapped sum is
\* allocated as private wires under a constraint that an overflow violates.
AddChecked(c, a, b) ==
    LET sum == EjectValue(a) + EjectValue(b)
    IN  IF IsConstant(a) /\ IsConstant(b)
        THEN IF AddOverflows(a, b)
             THEN [halted |-> TRUE, circuit |-> c, integer |-> NoInteger]
             ELSE LET r == New(c, a.ty, "Constant", sum)
                  IN  [halted |-> FALSE, circuit |-> r.circuit, integer |-> r.integer]
        ELSE LET r == New(c, a.ty, "Private", FromPattern(a.ty, Pattern(a.ty, sum)))
             IN  [halted |-> FALSE,
                  circuit |-> [r.circuit EXCEPT
                                 !.constraints = @ + 1,
                                 !.violated = @ + (IF AddOverflows(a, b) THEN 1 ELSE 0)],
                  integer |-> r.integer]

\* check_operation_passes_without_counts: the operation runs in a scope, the
\* ejected value is compared with the expected one, and the circuit is
\* reset.  A halt of the operation or a failed assertion ends the test
\* before the reset.
CheckOperationPassesWithoutCounts(c, expected, a, b) ==
    LET r == AddChecked(c, a, b)
        passed == ~r.halted /\ expected = EjectValue(r.integer)
    IN  [passed |-> passed, halted |-> r.halted,
         returned |-> ~r.halted,
         value |-> IF r.halted THEN 0 ELSE EjectValue(r.integer),
         satisfied |-> IsSatisfied(r.circuit),
         circuit |-> IF passed THEN EmptyCircuit ELSE r.circuit]

\* Mutant of CheckOperationFailsWithoutCounts: assert!(Circuit::is_satisfied()).
CheckOperationFailsAssertsSatisfied(c, a, b) ==
    LET r == AddChecked(c, a, b)
        passed == ~r.halted /\ IsSatisfied(r.circuit)
    IN  [passed |-> passed, halted |-> r.halted,
         returned |-> ~r.halted,
         value |-> IF r.halted THEN 0 ELSE EjectValue(r.integer),
         satisfied |-> IsSatisfied(r.circuit),
         circuit |-> IF passed THEN EmptyCircuit ELSE r.circuit]

\* check_operation_fails_without_counts: the operation runs in a scope, the
\* circuit must not be satisfied, and the circuit is reset.
CheckOperationFailsWithoutCounts(c, a, b) ==
    LET r == AddChecked(c, a, b)
        passed == ~r.halted /\ ~IsSatisfied(r.circuit)
    IN  [passed |-> passed, halted |-> r.halted,
         returned |-> ~r.halted,
         value |-> IF r.halted THEN 0 ELSE EjectValue(r.integer),
         satisfied |-> IsSatisfied(r.circuit),
         circuit |-> IF passed THEN EmptyCircuit ELSE r.circuit]

\* check_operation_halts: the operation runs under catch_unwind and must have
\* halted; the circuit is not reset.
CheckOperationHalts(c, a, b) ==
    LET r == AddChecked(c, a, b)
    IN  [passed |-> r.halted, halted |-> r.halted,
         returned |-> ~r.halted,
         value |-> IF r.halted THEN 0 ELSE EjectValue(r.integer),
         satisfied |-> IsSatisfied(r.circuit),
         circuit |-> r.circuit]

-----------------------------------------------------------------------------
(* The inputs. *)

Near(ty, v) == {w \in (v - NearBound)..(v + NearBound) : w >= MIN(ty) /\ w <= MAX(ty)}

\* The native values New is called with.
Values(ty) == Near(ty, MIN(ty)) \cup Near(ty, 0) \cup Near(ty, MAX(ty))
                \cup {w \in {5, 10, 15, 250} : w <= MAX(ty)}

\* The native values the specification of all the 8-bit values calls New
\* with: every value of an 8-bit type, the values above of a 16-bit one.
AllValues(ty) == IF BITS(ty) = 8 THEN MIN(ty)..MAX(ty) ELSE Values(ty)

\* The second operand of a checked operation.
Operands(ty) == {w \in {0 - 1, 1, 10} : w >= MIN(ty)}

\* The texts parse is called with: a sign, digits, a type suffix and a mode
\* suffix, each of them possibly missing or malformed.
SignTexts == {<<>>, <<"-">>}

DigitTexts ==
    { <<>>, <<"0">>, <<"7">>, <<"0", "0", "7">>,
      <<"_", "5">>, <<"1", "_", "0">>, <<"1", "_", "_", "2", "_">>,
      <<"1", "2", "7">>, <<"1", "2", "8">>, <<"1", "2", "9">>,
      <<"2", "5", "5">>, <<"2", "5", "6">>,
      <<"3", "2", "_", "7", "6", "7">>, <<"3", "2", "7", "6", "8">>,
      <<"3", "2", "7", "6", "9">>,
      <<"6", "5", "5", "3", "5">>, <<"6", "5", "5", "3", "6">> }

SuffixTexts == {TypeName(ty) : ty \in Types} \cup {<<>>}

ModeTexts ==
    { <<>>, <<".">> \o ModeDisplay("Constant"), <<".">> \o ModeDisplay("Public"),
      <<".">> \o ModeDisplay("Private"), <<".", "p", "u", "b">> }

-----------------------------------------------------------------------------
(* The operations.  The model holds one integer, x (NoInteger when it holds *)
(* none), and out, what the last operation returned or observed.  A        *)
(* construction starts from an empty x once out has been consumed (Idle).  *)

Idle == out.op \in {"init", "drop", "reset"}

NumAll(c) == c.constants + c.public + c.private

HasRoom(c, n) == NumAll(c) + n <= MaxVars

Init ==
    /\ circuit = EmptyCircuit
    /\ x = NoInteger
    /\ out = [op |-> "init"]

\* let x = Integer::new(mode, value)
DoNew ==
    \E ty \in Types, mode \in Modes :
      \E value \in Values(ty) :
        /\ x = NoInteger /\ Idle
        /\ HasRoom(circuit, BITS(ty))
        /\ LET r == New(circuit, ty, mode, value)
           IN  /\ circuit' = r.circuit
               /\ x' = r.integer
        /\ out' = [op |-> "new", ty |-> ty, mode |-> mode, value |-> value,
                   before |-> circuit]

\* let x = Integer::new(mode, value), for every value of the 8-bit types.
DoNewAny ==
    \E ty \in Types, mode \in Modes :
      \E value \in AllValues(ty) :
        /\ x = NoInteger /\ Idle
        /\ HasRoom(circuit, BITS(ty))
        /\ LET r == New(circuit, ty, mode, value)
           IN  /\ circuit' = r.circuit
               /\ x' = r.integer
        /\ out' = [op |-> "new", ty |-> ty, mode |-> mode, value |-> value,
                   before |-> circuit]

\* let x = x.cast_as_dual()
DoCastAsDual ==
    /\ x # NoInteger
    /\ x' = CastAsDual(x)
    /\ out' = [op |-> "cast_as_dual", self |-> x, before |-> circuit,
               prev |-> IF out.op = "cast_as_dual" THEN out.self ELSE NoInteger]
    /\ UNCHANGED circuit

\* let x = x.clone()
DoClone ==
    /\ x # NoInteger
    /\ x' = Clone(x)
    /\ out' = [op |-> "clone", self |-> x, before |-> circuit]
    /\ UNCHANGED circuit

\* Integer::parse(text) of a text put together from its parts.
DoParse ==
    \E ty \in Types, sign \in SignTexts, digits \in DigitTexts,
       suffix \in SuffixTexts, mode \in ModeTexts :
        /\ x = NoInteger /\ Idle
        /\ HasRoom(circuit, BITS(ty))
        /\ LET r == Parse(circuit, ty, sign \o digits \o suffix \o mode)
           IN  /\ circuit' = r.circuit
               /\ x' = r.integer
               /\ out' = [op |-> "parse", ty |-> ty, ok |-> r.ok, rest |-> r.rest,
                          sign |-> sign, digits |-> digits, suffix |-> suffix,
                          mode |-> mode, before |-> circuit]

\* format!("{}", x)
DoDisplay ==
    /\ x # NoInteger
    /\ out' = [op |-> "display", text |-> Display(x), self |-> x]
    /\ UNCHANGED <<circuit, x>>

\* format!("{:?}", x)
DoDebug ==
    /\ x # NoInteger
    /\ out' = [op |-> "debug", text |-> Debug(x), self |-> x]
    /\ UNCHANGED <<circuit, x>>

\* let (_, x) = Integer::parse(&format!("{x}")): the text displayed is parsed
\* back for the type of x.
DoParseDisplayed ==
    /\ x # NoInteger
    /\ out.op = "display"
    /\ HasRoom(circuit, 0)
    /\ LET r == Parse(circuit, x.ty, out.text)
       IN  /\ circuit' = r.circuit
           /\ x' = r.integer
           /\ out' = [op |-> "parse_displayed", ty |-> x.ty, ok |-> r.ok,
                      rest |-> r.rest, expected |-> x, before |-> circuit]

\* LinearCombination::from(&x)
DoToLinearCombination ==
    /\ x # NoInteger
    /\ out' = [op |-> "to_lc", lc |-> ToLinearCombination(x), self |-> x,
               before |-> circuit]
    /\ UNCHANGED <<circuit, x>>

\* The tests hand a test utility operands allocated in an empty circuit.
FreshOperand == x # NoInteger /\ out.op = "new" /\ out.before = EmptyCircuit

\* What a test utility saw, with the operands it ran on.
Observed(name, a, b, r) ==
    [op |-> name, ty |-> a.ty, passed |-> r.passed, halted |-> r.halted,
     returned |-> r.returned, value |-> r.value, satisfied |-> r.satisfied,
     a |-> EjectValue(a), b |-> EjectValue(b),
     a_mode |-> EjectMode(a), b_mode |-> EjectMode(b),
     satisfied_before |-> IsSatisfied(circuit)]

\* check_operation_passes_without_counts(.., expected, x, b, add_checked), b a
\* new integer of the type of x and expected the native sum.
DoCheckOperationPasses ==
    \E mode \in Modes :
      \E value \in Operands(x.ty) :
        /\ FreshOperand
        /\ LET b == New(circuit, x.ty, mode, value)
               r == CheckOperationPassesWithoutCounts(
                        b.circuit, EjectValue(x) + value, x, b.integer)
           IN  /\ circuit' = r.circuit
               /\ out' = Observed("check_operation_passes", x, b.integer, r)
        /\ x' = NoInteger

\* check_operation_fails_without_counts(.., x, b, add_checked)
DoCheckOperationFails ==
    \E mode \in Modes :
      \E value \in Operands(x.ty) :
        /\ FreshOperand
        /\ LET b == New(circuit, x.ty, mode, value)
               r == CheckOperationFailsWithoutCounts(b.circuit, x, b.integer)
           IN  /\ circuit' = r.circuit
               /\ out' = Observed("check_operation_fails", x, b.integer, r)
        /\ x' = NoInteger

\* check_operation_halts(x, b, add_checked)
DoCheckOperationHalts ==
    \E mode \in Modes :
      \E value \in Operands(x.ty) :
        /\ FreshOperand
        /\ LET b == New(circuit, x.ty, mode, value)
               r == CheckOperationHalts(b.circuit, x, b.integer)
           IN  /\ circuit' = r.circuit
               /\ out' = Observed("check_operation_halts", x, b.integer, r)
        /\ x' = NoInteger

\* x goes out of scope; its wires stay in the circuit.
DoDrop ==
    /\ x' = NoInteger
    /\ out' = [op |-> "drop"]
    /\ UNCHANGED circuit

\* Circuit::reset()
DoReset ==
    /\ circuit' = EmptyCircuit
    /\ x' = NoInteger
    /\ out' = [op |-> "reset"]

Next ==
    \/ DoNew
    \/ DoCastAsDual
    \/ DoClone
    \/ DoParse
    \/ DoDisplay
    \/ DoDebug
    \/ DoParseDisplayed
    \/ DoToLinearCombination
    \/ DoCheckOperationPasses
    \/ DoCheckOperationFails
    \/ DoCheckOperationHalts
    \/ DoDrop
    \/ DoReset

Spec == Init /\ [][Next]_vars

\* Injection alone, over every value of the 8-bit types.
NextAllValues == DoNewAny \/ DoDrop \/ DoReset

SpecAllValues == Init /\ [][NextAllValues]_vars

-----------------------------------------------------------------------------
(* What the properties are stated with. *)

\* Bit i (0 the least significant) of a natural number.
BitOf(u, i) == (u \div (2 ^ i)) % 2 = 1

\* The two's-complement representation of a native value, as a natural number.
TwosComplement(ty, v) == IF v < 0 THEN v + 2 ^ BITS(ty) ELSE v

InRange(ty, v) == MIN(ty) <= v /\ v <= MAX(ty)

\* The number a sequence of digit characters writes, read by position.
RECURSIVE DecimalValue(_)
DecimalValue(digits) ==
    IF digits = <<>> THEN 0
    ELSE 10 * DecimalValue(SubSeq(digits, 1, Len(digits) - 1))
         + DigitOf(digits[Len(digits)])

\* text is the decimal numeral of the natural number n.
IsNumeralOf(text, n) ==
    /\ text # <<>>
    /\ \A k \in 1..Len(text) : IsDigit(text[k])
    /\ Len(text) > 1 => text[1] # "0"
    /\ DecimalValue(text) = n

\* text writes the integer v in decimal, a '-' before a negative one.
IsDecimalOf(text, v) ==
    IF v < 0
    THEN Len(text) >= 2 /\ text[1] = "-" /\ IsNumeralOf(Tail(text), 0 - v)
    ELSE IsNumeralOf(text, v)

\* The keyword of a mode.
Keyword(mode) ==
    CASE mode = "Constant" -> <<"c", "o", "n", "s", "t", "a", "n", "t">>
      [] mode = "Public" -> <<"p", "u", "b", "l", "i", "c">>
      [] mode = "Private" -> <<"p", "r", "i", "v", "a", "t", "e">>

\* The operation out reports is one of the test utilities.
IsCheck == out.op \in {"check_operation_passes", "check_operation_fails",
                       "check_operation_halts"}

\* The digits of a parsed text are one or more digits with underscores as
\* separators after them.
DigitsWellFormed(digits) ==
    /\ digits # <<>>
    /\ IsDigit(digits[1])
    /\ \A k \in 1..Len(digits) : IsDigit(digits[k]) \/ digits[k] = "_"

HasNoDigit(digits) == \A k \in 1..Len(digits) : ~IsDigit(digits[k])

\* The number the sign and the digits write, the underscores removed.
WrittenNumber(sign, digits) ==
    IF sign = <<"-">> THEN 0 - DecimalValue(SelectSeq(digits, IsDigit))
    ELSE DecimalValue(SelectSeq(digits, IsDigit))

\* The mode a mode suffix names; Constant when there is none.
WrittenMode(text) ==
    IF text = <<".">> \o Keyword("Public") THEN "Public"
    ELSE IF text = <<".">> \o Keyword("Private") THEN "Private"
    ELSE "Constant"

-----------------------------------------------------------------------------
(* The properties. *)

\* C1: for every type, mode and native value, MIN and MAX included,
\* eject_value(new(mode, value)) is value.
C1_EjectValueOfNew == out.op = "new" => EjectValue(x) = out.value

C1_Witness ==
    /\ out.op = "new" /\ out.ty = "i8" /\ out.mode = "Private"
    /\ out.value = 0 - 77
    /\ EjectValue(x) = 0 - 77 /\ NumAll(circuit) = 16

\* C2: eject_mode(new(mode, value)) is mode, the integer is constant exactly
\* when mode is Constant, and every wire new allocated carries mode.
C2_EjectModeOfNew ==
    out.op = "new" =>
        /\ EjectMode(x) = out.mode
        /\ IsConstant(x) <=> out.mode = "Constant"
        /\ \A k \in 1..Len(x.bits_le) : x.bits_le[k].mode = out.mode

C2_Witness ==
    /\ out.op = "new" /\ out.mode = "Public" /\ out.ty = "u16"
    /\ EjectMode(x) = "Public" /\ ~IsConstant(x)

\* C3: parsing the Display text of an integer succeeds and gives an integer
\* of the same type with the same ejected mode and the same ejected value.
C3_ParseDisplayRoundTrip ==
    out.op = "parse_displayed" =>
        /\ out.ok
        /\ x.ty = out.expected.ty
        /\ EjectMode(x) = EjectMode(out.expected)
        /\ EjectValue(x) = EjectValue(out.expected)

C3_Witness ==
    /\ out.op = "parse_displayed" /\ out.ok
    /\ out.expected.ty = "i8" /\ EjectValue(out.expected) = 0 - 128
    /\ EjectMode(out.expected) = "Private"
    /\ EjectValue(x) = 0 - 128 /\ EjectMode(x) = "Private"

\* C4: a checked addition that overflows halts exactly when both operands are
\* constant; with a public or private operand it returns and leaves the
\* circuit unsatisfied; without overflow it returns the exact sum and the
\* circuit stays satisfied.  A halt never comes with a violated constraint.
C4_CheckedAddChannels ==
    IsCheck =>
        LET overflow == ~InRange(out.ty, out.a + out.b)
            constant == out.a_mode = "Constant" /\ out.b_mode = "Constant"
        IN  /\ overflow => (out.halted <=> constant)
            /\ overflow /\ ~constant => out.returned /\ ~out.satisfied
            /\ ~overflow => /\ ~out.halted /\ out.returned
                            /\ out.value = out.a + out.b
                            /\ out.satisfied_before /\ out.satisfied
            /\ out.halted => ~out.returned /\ out.satisfied
            /\ out.op = "check_operation_halts" => (out.passed <=> overflow /\ constant)
            /\ out.op = "check_operation_fails" => (out.passed <=> overflow /\ ~constant)
            /\ out.op = "check_operation_passes" => (out.passed <=> ~overflow)

C4_Witness ==
    /\ out.op = "check_operation_fails" /\ out.ty = "u8"
    /\ out.a = 250 /\ out.b = 10
    /\ out.a_mode = "Public" /\ out.b_mode = "Public"
    /\ out.returned /\ ~out.halted /\ ~out.satisfied /\ out.passed

\* C5: Display writes the ejected value in decimal, then the type suffix, a
\* '.' and the keyword of the ejected mode; Debug writes the decimal value and
\* nothing else, whatever the mode.
C5_DisplayAndDebug ==
    /\ out.op = "display" =>
         LET tail == TypeName(out.self.ty) \o <<".">> \o Keyword(EjectMode(out.self))
             n == Len(out.text) - Len(tail)
         IN  /\ n >= 1
             /\ SubSeq(out.text, n + 1, Len(out.text)) = tail
             /\ IsDecimalOf(SubSeq(out.text, 1, n), EjectValue(out.self))
             /\ EjectValue(out.self) = 2 /\ out.self.ty = "u8" =>
                  out.text \in { <<"2", "u", "8", ".">> \o Keyword(m) : m \in Modes }
    /\ out.op = "debug" =>
         /\ IsDecimalOf(out.text, EjectValue(out.self))
         /\ EjectValue(out.self) = 2 => out.text = <<"2">>

C5_Witness ==
    /\ out.op = "display"
    /\ out.text = <<"2", "i", "1", "6", ".", "p", "r", "i", "v", "a", "t", "e">>
    /\ EjectValue(x) = 2 /\ EjectMode(x) = "Private"

\* What C6 and C10 say of a parsed text: its parts are those of the format.
WellFormedText ==
    /\ DigitsWellFormed(out.digits)
    /\ out.suffix = TypeName(out.ty)
    /\ out.mode \in {<<>>} \cup {<<".">> \o Keyword(m) : m \in Modes}

ParsedAsWritten ==
    /\ out.ok
    /\ x.ty = out.ty
    /\ EjectMode(x) = WrittenMode(out.mode)
    /\ EjectValue(x) = WrittenNumber(out.sign, out.digits)

\* C6 as stated: a text of an optional '-', digits with underscores and the
\* type suffix, whose number is one of the type, is accepted; the mode is the
\* one of the mode suffix, Constant without one, and the value is the number
\* written.
C6_Original ==
    out.op = "parse" /\ WellFormedText
        /\ InRange(out.ty, WrittenNumber(out.sign, out.digits))
    => ParsedAsWritten

\* C6, amended: as C6, the '-' being accepted for a signed type only; a text
\* with a '-' is rejected for an unsigned type, "-0u8" included.
C6_ParseAccepts ==
    /\ out.op = "parse" /\ WellFormedText
         /\ InRange(out.ty, WrittenNumber(out.sign, out.digits))
         /\ (out.sign = <<"-">> => IsSigned(out.ty))
       => ParsedAsWritten
    /\ out.op = "parse" /\ out.sign = <<"-">> /\ ~IsSigned(out.ty) => ~out.ok

C6_Witness ==
    /\ out.op = "parse" /\ out.ok /\ out.ty = "i8"
    /\ out.sign = <<"-">> /\ out.digits = <<"1", "_", "_", "2", "_">>
    /\ out.mode = <<".">> \o Keyword("Private")
    /\ EjectValue(x) = 0 - 12 /\ EjectMode(x) = "Private"

\* C7: an integer holds exactly as many wires as its type has bits, after
\* new, clone and cast_as_dual alike, and wire i of new(mode, value) carries
\* bit i of the two's-complement representation of value.
C7_WidthAndBits ==
    /\ x # NoInteger => Len(x.bits_le) = BITS(x.ty) /\ Len(x.bits_le) > 0
    /\ out.op \in {"clone", "cast_as_dual"} =>
         Len(x.bits_le) = Len(out.self.bits_le)
    /\ out.op = "new" =>
         \A k \in 1..BITS(out.ty) :
             x.bits_le[k].value = BitOf(TwosComplement(out.ty, out.value), k - 1)

C7_Witness ==
    /\ out.op = "new" /\ out.ty = "i16" /\ out.value = 0 - 2
    /\ Len(x.bits_le) = 16
    /\ ~x.bits_le[1].value /\ x.bits_le[2].value /\ x.bits_le[16].value

\* C8: cast_as_dual gives an integer of the same width and the opposite
\* signedness with the same wires in the same order; the circuit is as it
\* was; the ejected mode is the same and the ejected value is the same bit
\* pattern read under the new signedness; a second cast gives back the type
\* and the ejected value of the first integer.
C8_CastAsDual ==
    out.op = "cast_as_dual" =>
        /\ BITS(x.ty) = BITS(out.self.ty)
        /\ IsSigned(x.ty) # IsSigned(out.self.ty)
        /\ x.bits_le = out.self.bits_le
        /\ circuit = out.before
        /\ EjectMode(x) = EjectMode(out.self)
        /\ TwosComplement(x.ty, EjectValue(x))
             = TwosComplement(out.self.ty, EjectValue(out.self))
        /\ InRange(x.ty, EjectValue(x))
        /\ out.prev # NoInteger =>
             /\ x.ty = out.prev.ty
             /\ EjectValue(x) = EjectValue(out.prev)
             /\ x.bits_le = out.prev.bits_le

C8_Witness ==
    /\ out.op = "cast_as_dual" /\ out.prev # NoInteger
    /\ out.prev.ty = "u8" /\ EjectValue(out.prev) = 255
    /\ out.self.ty = "i8" /\ EjectValue(out.self) = 0 - 1
    /\ x.ty = "u8" /\ EjectValue(x) = 255
    /\ NumAll(circuit) = 16

\* The sum over the wires of bit_i * 2^i, from wire k up.
RECURSIVE WeightedSum(_, _)
WeightedSum(bits_le, k) ==
    IF k > Len(bits_le) THEN 0
    ELSE (IF bits_le[k].value THEN 2 ^ (k - 1) ELSE 0) + WeightedSum(bits_le, k + 1)

\* C9: the field embedding has one term per wire, wire i with coefficient
\* 2^i, and evaluates to the sum of bit_i * 2^i: the ejected value of an
\* unsigned integer, the ejected value modulo 2^width of a signed one;
\* building it leaves the integer and the circuit as they were.
C9_FieldEmbedding ==
    out.op = "to_lc" =>
        /\ Len(out.lc.terms) = BITS(x.ty)
        /\ \A k \in 1..Len(out.lc.terms) :
             /\ out.lc.terms[k].coefficient = 2 ^ (k - 1)
             /\ out.lc.terms[k].index = x.bits_le[k].index
             /\ out.lc.terms[k].mode = x.bits_le[k].mode
        /\ out.lc.value = WeightedSum(x.bits_le, 1)
        /\ ~IsSigned(x.ty) => out.lc.value = EjectValue(x)
        /\ IsSigned(x.ty) => out.lc.value = EjectValue(x) % (2 ^ BITS(x.ty))
        /\ out.lc.value >= 0
        /\ x = out.self
        /\ circuit = out.before

C9_Witness ==
    /\ out.op = "to_lc" /\ x.ty = "i8" /\ EjectValue(x) = 0 - 1
    /\ out.lc.value = 255 /\ EjectMode(x) = "Public"

\* C10: parse fails, allocating nothing and giving no integer, when the text
\* has no digit, has an underscore before its first digit, has another type
\* suffix than the type's, or writes a number that is not one of the type;
\* whenever parse fails the circuit is as it was before the call.
C10_ParseFailsCleanly ==
    out.op = "parse" =>
        /\ ( \/ HasNoDigit(out.digits)
             \/ (out.digits # <<>> /\ out.digits[1] = "_")
             \/ out.suffix # TypeName(out.ty)
             \/ ~InRange(out.ty, WrittenNumber(out.sign, out.digits)) )
           => ~out.ok
        /\ ~out.ok => circuit = out.before /\ x = NoInteger

C10_Witness ==
    /\ out.op = "parse" /\ ~out.ok /\ out.ty = "u8"
    /\ out.sign = <<>> /\ out.digits = <<"2", "5", "6">>
    /\ out.suffix = <<"u", "8">>
    /\ circuit = out.before /\ NumAll(circuit) = 8
=============================================================================
